---- MODULE Spec2Model ----
(***************************************************************************)
(* Model of the range-addressable download path of tele-bot:               *)
(*   server/range.go         ParseRange, HTTPRange.ContentRange            *)
(*   server/server.go        Server.handleDownload (the TelegramReader     *)
(*                           version, lines 163-238)                       *)
(*   telegram/downloader.go  TelegramReader: NewTelegramReader, Read,      *)
(*                           chunk, partStream                             *)
(*                                                                         *)
(* Strings the code parses or formats are sequences of one-character       *)
(* strings, so that strings.Split, strings.TrimSpace, strconv.ParseInt and *)
(* fmt.Sprintf("%d") are computed rather than assumed.  A file byte is     *)
(* identified with its offset in the file (Content(i) = i), so that any    *)
(* displaced, repeated or missing byte shows.  ChunkSize is the source's   *)
(* constant scaled down from 1 MiB.                                        *)
(***************************************************************************)
EXTENDS Integers, Sequences, FiniteSets, TLC

\* ------------------------------------------------------------------ bounds
MaxSize == 11     \* largest stored file size
MaxNum == 12     \* largest number written in a Range header
MaxBuf == 3      \* largest buffer the consumer hands to Read
MaxConcSize == 9 \* largest file served to two requests at once
MaxAfter == 2    \* most Read calls a caller makes after an EOF or an error

\* downloader.go:16 (1024 * 1024 in the source, scaled)
ChunkSize == 4

Min(a, b) == IF a < b THEN a ELSE b

\* Go's a / b and a % b on integers, b > 0: the quotient truncates toward
\* zero and the remainder takes the sign of a
GoQuo(a, b) == IF a >= 0 THEN a \div b ELSE 0 - ((0 - a) \div b)

GoRem(a, b) == a - b * GoQuo(a, b)

\* ------------------------------------------------------------ string model
Digits == <<"0", "1", "2", "3", "4", "5", "6", "7", "8", "9">>

IsDigit(c) == \E i \in 1..10 : Digits[i] = c

DigitVal(c) == (CHOOSE i \in 1..10 : Digits[i] = c) - 1

\* fmt.Sprintf("%d", n)
RECURSIVE Itoa(_)
Itoa(n) ==
  IF n < 0 THEN <<"-">> \o Itoa(0 - n)
  ELSE IF n < 10 THEN <<Digits[n + 1]>>
  ELSE Itoa(n \div 10) \o <<Digits[(n % 10) + 1]>>

\* value of a sequence of decimal digits
RECURSIVE DigitsVal(_)
DigitsVal(s) ==
  IF s = <<>> THEN 0
  ELSE 10 * DigitsVal(SubSeq(s, 1, Len(s) - 1)) + DigitVal(s[Len(s)])

\* strconv.ParseInt(s, 10, 64): an optional sign, then at least one digit and
\* nothing else.  (The int64 range error needs 19 digits, more than any
\* header of the model has.)
ParseInt(s) ==
  LET signed == s # <<>> /\ s[1] \in {"+", "-"}
      body == IF signed THEN SubSeq(s, 2, Len(s)) ELSE s
      ok == body # <<>> /\ \A i \in 1..Len(body) : IsDigit(body[i])
  IN  IF ~ok THEN [ok |-> FALSE, val |-> 0]
      ELSE [ok |-> TRUE,
            val |-> IF signed /\ s[1] = "-" THEN 0 - DigitsVal(body)
                    ELSE DigitsVal(body)]

\* strings.HasPrefix
HasPrefix(s, p) == Len(s) >= Len(p) /\ SubSeq(s, 1, Len(p)) = p

\* strings.TrimPrefix
TrimPrefix(s, p) == IF HasPrefix(s, p) THEN SubSeq(s, Len(p) + 1, Len(s)) ELSE s

\* strings.Split(s, sep) for a one-character separator: always at least one
\* field, empty fields kept
RECURSIVE Split(_, _)
Split(s, sep) ==
  IF \A i \in 1..Len(s) : s[i] # sep THEN <<s>>
  ELSE LET k == CHOOSE i \in 1..Len(s) :
                  s[i] = sep /\ \A j \in 1..(i - 1) : s[j] # sep
       IN  <<SubSeq(s, 1, k - 1)>> \o Split(SubSeq(s, k + 1, Len(s)), sep)

\* strings.TrimSpace
RECURSIVE TrimSpace(_)
TrimSpace(s) ==
  IF s = <<>> THEN s
  ELSE IF s[1] = " " THEN TrimSpace(Tail(s))
  ELSE IF s[Len(s)] = " " THEN TrimSpace(SubSeq(s, 1, Len(s) - 1))
  ELSE s

BytesPrefix == <<"b", "y", "t", "e", "s", "=">>

\* ----------------------------------------------------------- server/range.go
NoRange == [Start |-> 0, End |-> 0, Length |-> 0]

\* ResolveRange without the clamp of a suffix start at 0 (range.go:58-60)
ResolveRange_NoClamp(rangeHeader, contentLength) ==
  LET rangeSpec == TrimPrefix(rangeHeader, BytesPrefix)
      ranges == Split(rangeSpec, ",")
      parts == Split(TrimSpace(ranges[1]), "-")
      bad == [err |-> TRUE, start |-> 0, end |-> 0]
  IN  IF Len(parts) # 2 THEN bad
      ELSE IF parts[1] = <<>> THEN
        LET suffix == ParseInt(parts[2])
        IN  IF ~suffix.ok THEN bad
            ELSE [err |-> FALSE,
                  start |-> contentLength - suffix.val,
                  end |-> contentLength - 1]
      ELSE IF parts[2] = <<>> THEN
        LET st == ParseInt(parts[1])
        IN  IF ~st.ok THEN bad
            ELSE [err |-> FALSE, start |-> st.val, end |-> contentLength - 1]
      ELSE
        LET st == ParseInt(parts[1])
            en == ParseInt(parts[2])
        IN  IF ~st.ok \/ ~en.ok THEN bad
            ELSE [err |-> FALSE, start |-> st.val, end |-> en.val]

\* range.go:42-79: the start and end the header resolves to, before validation
ResolveRange(rangeHeader, contentLength) ==
  LET rangeSpec == TrimPrefix(rangeHeader, BytesPrefix)
      ranges == Split(rangeSpec, ",")
      parts == Split(TrimSpace(ranges[1]), "-")
      bad == [err |-> TRUE, start |-> 0, end |-> 0]
  IN  IF Len(parts) # 2 THEN bad
      ELSE IF parts[1] = <<>> THEN
        LET suffix == ParseInt(parts[2])
            s0 == contentLength - suffix.val
        IN  IF ~suffix.ok THEN bad
            ELSE [err |-> FALSE,
                  start |-> IF s0 < 0 THEN 0 ELSE s0,
                  end |-> contentLength - 1]
      ELSE IF parts[2] = <<>> THEN
        LET st == ParseInt(parts[1])
        IN  IF ~st.ok THEN bad
            ELSE [err |-> FALSE, start |-> st.val, end |-> contentLength - 1]
      ELSE
        LET st == ParseInt(parts[1])
            en == ParseInt(parts[2])
        IN  IF ~st.ok \/ ~en.ok THEN bad
            ELSE [err |-> FALSE, start |-> st.val, end |-> en.val]

\* Unsatisfiable without the upper bound on end
Unsatisfiable_NoUpper(start, end, contentLength) ==
  start < 0 \/ end < start

\* range.go:81-84
Unsatisfiable(start, end, contentLength) ==
  start < 0 \/ end < start \/ end >= contentLength

\* ParseRange that serves the first of several ranges instead of rejecting
ParseRange_FirstOfMany(rangeHeader, contentLength) ==
  LET failed == [err |-> TRUE, range |-> NoRange]
  IN  IF rangeHeader = <<>> THEN
        [err |-> FALSE,
         range |-> [Start |-> 0, End |-> contentLength - 1,
                    Length |-> contentLength]]
      ELSE IF ~HasPrefix(rangeHeader, BytesPrefix) THEN failed
      ELSE LET res == ResolveRange(rangeHeader, contentLength)
           IN  IF res.err THEN failed
               ELSE IF Unsatisfiable(res.start, res.end, contentLength) THEN failed
               ELSE [err |-> FALSE,
                     range |-> [Start |-> res.start, End |-> res.end,
                                Length |-> res.end - res.start + 1]]

\* ParseRange that clamps an end past the file to the last byte
ParseRange_ClampEnd(rangeHeader, contentLength) ==
  LET failed == [err |-> TRUE, range |-> NoRange]
  IN  IF rangeHeader = <<>> THEN
        [err |-> FALSE,
         range |-> [Start |-> 0, End |-> contentLength - 1,
                    Length |-> contentLength]]
      ELSE IF ~HasPrefix(rangeHeader, BytesPrefix) THEN failed
      ELSE IF Len(Split(TrimPrefix(rangeHeader, BytesPrefix), ",")) > 1 THEN failed
      ELSE LET res == ResolveRange(rangeHeader, contentLength)
               end == Min(res.end, contentLength - 1)
           IN  IF res.err THEN failed
               ELSE IF Unsatisfiable(res.start, end, contentLength) THEN failed
               ELSE [err |-> FALSE,
                     range |-> [Start |-> res.start, End |-> end,
                                Length |-> end - res.start + 1]]

\* range.go:18-91
ParseRange(rangeHeader, contentLength) ==
  LET failed == [err |-> TRUE, range |-> NoRange]
  IN  IF rangeHeader = <<>> THEN
        [err |-> FALSE,
         range |-> [Start |-> 0, End |-> contentLength - 1,
                    Length |-> contentLength]]
      ELSE IF ~HasPrefix(rangeHeader, BytesPrefix) THEN failed
      ELSE IF Len(Split(TrimPrefix(rangeHeader, BytesPrefix), ",")) > 1 THEN failed
      ELSE LET res == ResolveRange(rangeHeader, contentLength)
           IN  IF res.err THEN failed
               ELSE IF Unsatisfiable(res.start, res.end, contentLength) THEN failed
               ELSE [err |-> FALSE,
                     range |-> [Start |-> res.start, End |-> res.end,
                                Length |-> res.end - res.start + 1]]

\* range.go:93-96
ContentRange(r, totalSize) ==
  <<"b", "y", "t", "e", "s", " ">> \o Itoa(r.Start) \o <<"-">> \o Itoa(r.End)
    \o <<"/">> \o Itoa(totalSize)

\* ------------------------------------------------------ telegram/downloader.go
\* the byte of the file at offset i
Content(i) == i

\* what a slice read past len() but inside cap() shows
Garbage == 0 - 1

\* the aligned chunk the backend holds at offset: content[offset ..
\* min(offset+limit, totalSize)-1]
FullChunk(offset, limit, totalSize) ==
  [i \in 1..(Min(offset + limit, totalSize) - offset) |-> Content(offset + i - 1)]

NoFetch == [kind |-> "none", bytes |-> <<>>, cap |-> 0]

\* downloader.go:105-125: the outcomes of one UploadGetFile call.  "full" is
\* the whole aligned chunk, "short" a non-empty proper prefix of it, "empty" a
\* zero-length result, "error" a transport error, a CDN redirect or an
\* unexpected response type.  cap is the capacity of the returned slice, which
\* the decoder is free to make larger than its length.
ChunkResults(offset, limit, totalSize) ==
  LET full == FullChunk(offset, limit, totalSize)
  IN  {[kind |-> "full", bytes |-> full, cap |-> Len(full)],
       [kind |-> "empty", bytes |-> <<>>, cap |-> 0],
       [kind |-> "error", bytes |-> <<>>, cap |-> 0]}
      \cup UNION {{[kind |-> "short", bytes |-> SubSeq(full, 1, n), cap |-> c] :
                      c \in {n, limit}} : n \in 1..(Len(full) - 1)}

\* Go's chunk[lo:hi]: legal when 0 <= lo <= hi <= cap(chunk)
SliceOK(res, lo, hi) == 0 <= lo /\ lo <= hi /\ hi <= res.cap

Slice(res, lo, hi) ==
  [i \in 1..(hi - lo) |->
     IF lo + i <= Len(res.bytes) THEN res.bytes[lo + i] ELSE Garbage]

\* NewTelegramReader with the trailing cut one byte short
NewTelegramReader_LastCutOff(start, end) ==
  LET offset == start - GoRem(start, ChunkSize)
  IN  [start |-> start,
       end |-> end,
       contentLength |-> end - start + 1,
       buffer |-> <<>>,
       bufferPos |-> 0,
       bytesRead |-> 0,
       offset |-> offset,
       firstPartCut |-> start - offset,
       lastPartCut |-> GoRem(end, ChunkSize),
       partCount |-> GoQuo(end - offset + ChunkSize, ChunkSize),
       currentPart |-> 1]

\* NewTelegramReader that starts fetching at the requested start instead of
\* the chunk boundary below it
NewTelegramReader_Unaligned(start, end) ==
  LET offset == start - GoRem(start, ChunkSize)
  IN  [start |-> start,
       end |-> end,
       contentLength |-> end - start + 1,
       buffer |-> <<>>,
       bufferPos |-> 0,
       bytesRead |-> 0,
       offset |-> start,
       firstPartCut |-> start - offset,
       lastPartCut |-> GoRem(end, ChunkSize) + 1,
       partCount |-> GoQuo(end - offset + ChunkSize, ChunkSize),
       currentPart |-> 1]

\* NewTelegramReader that counts the parts from the requested start instead
\* of the aligned offset
NewTelegramReader_PartsFromStart(start, end) ==
  LET offset == start - GoRem(start, ChunkSize)
  IN  [start |-> start,
       end |-> end,
       contentLength |-> end - start + 1,
       buffer |-> <<>>,
       bufferPos |-> 0,
       bytesRead |-> 0,
       offset |-> offset,
       firstPartCut |-> start - offset,
       lastPartCut |-> GoRem(end, ChunkSize) + 1,
       partCount |-> GoQuo(end - start + ChunkSize, ChunkSize),
       currentPart |-> 1]

\* NewTelegramReader that counts the parts as (end - offset) / ChunkSize + 1
NewTelegramReader_PartsPlusOne(start, end) ==
  LET offset == start - GoRem(start, ChunkSize)
  IN  [start |-> start,
       end |-> end,
       contentLength |-> end - start + 1,
       buffer |-> <<>>,
       bufferPos |-> 0,
       bytesRead |-> 0,
       offset |-> offset,
       firstPartCut |-> start - offset,
       lastPartCut |-> GoRem(end, ChunkSize) + 1,
       partCount |-> GoQuo(end - offset, ChunkSize) + 1,
       currentPart |-> 1]

\* downloader.go:34-65 with the plan of partStream, downloader.go:128-142
NewTelegramReader(start, end) ==
  LET offset == start - GoRem(start, ChunkSize)
  IN  [start |-> start,
       end |-> end,
       contentLength |-> end - start + 1,
       buffer |-> <<>>,
       bufferPos |-> 0,
       bytesRead |-> 0,
       offset |-> offset,
       firstPartCut |-> start - offset,
       lastPartCut |-> GoRem(end, ChunkSize) + 1,
       partCount |-> GoQuo(end - offset + ChunkSize, ChunkSize),
       currentPart |-> 1]

\* the closure without the trim of the last part
PartStreamNext_NoLastTrim(r, res) ==
  IF r.currentPart > r.partCount THEN
    [r |-> r, chunk |-> <<>>, err |-> "nil"]
  ELSE IF res.kind = "error" THEN
    [r |-> r, chunk |-> <<>>, err |-> "fetch"]
  ELSE IF Len(res.bytes) = 0 THEN
    [r |-> r, chunk |-> <<>>, err |-> "nil"]
  ELSE
    LET n == Len(res.bytes)
        lo == IF r.partCount = 1 \/ r.currentPart = 1 THEN r.firstPartCut ELSE 0
        adv == [r EXCEPT !.currentPart = r.currentPart + 1,
                         !.offset = r.offset + ChunkSize]
    IN  IF ~SliceOK(res, lo, n) THEN [r |-> r, chunk |-> <<>>, err |-> "panic"]
        ELSE [r |-> adv, chunk |-> Slice(res, lo, n), err |-> "nil"]

\* the closure without offset += ChunkSize
PartStreamNext_NoAdvance(r, res) ==
  IF r.currentPart > r.partCount THEN
    [r |-> r, chunk |-> <<>>, err |-> "nil"]
  ELSE IF res.kind = "error" THEN
    [r |-> r, chunk |-> <<>>, err |-> "fetch"]
  ELSE IF Len(res.bytes) = 0 THEN
    [r |-> r, chunk |-> <<>>, err |-> "nil"]
  ELSE
    LET n == Len(res.bytes)
        lo == IF r.partCount = 1 \/ r.currentPart = 1 THEN r.firstPartCut ELSE 0
        hi == IF r.partCount = 1 \/ r.currentPart = r.partCount
              THEN r.lastPartCut ELSE n
        adv == [r EXCEPT !.currentPart = r.currentPart + 1]
    IN  IF ~SliceOK(res, lo, hi) THEN [r |-> r, chunk |-> <<>>, err |-> "panic"]
        ELSE [r |-> adv, chunk |-> Slice(res, lo, hi), err |-> "nil"]

\* the closure without the trim of the first part
PartStreamNext_NoFirstTrim(r, res) ==
  IF r.currentPart > r.partCount THEN
    [r |-> r, chunk |-> <<>>, err |-> "nil"]
  ELSE IF res.kind = "error" THEN
    [r |-> r, chunk |-> <<>>, err |-> "fetch"]
  ELSE IF Len(res.bytes) = 0 THEN
    [r |-> r, chunk |-> <<>>, err |-> "nil"]
  ELSE
    LET n == Len(res.bytes)
        lo == 0
        hi == IF r.partCount = 1 \/ r.currentPart = r.partCount
              THEN r.lastPartCut ELSE n
        adv == [r EXCEPT !.currentPart = r.currentPart + 1,
                         !.offset = r.offset + ChunkSize]
    IN  IF ~SliceOK(res, lo, hi) THEN [r |-> r, chunk |-> <<>>, err |-> "panic"]
        ELSE [r |-> adv, chunk |-> Slice(res, lo, hi), err |-> "nil"]

\* downloader.go:145-179: one call of the closure partStream returns; res is
\* the outcome of the fetch it issues (NoFetch when it issues none)
PartStreamNext(r, res) ==
  IF r.currentPart > r.partCount THEN
    [r |-> r, chunk |-> <<>>, err |-> "nil"]
  ELSE IF res.kind = "error" THEN
    [r |-> r, chunk |-> <<>>, err |-> "fetch"]
  ELSE IF Len(res.bytes) = 0 THEN
    [r |-> r, chunk |-> <<>>, err |-> "nil"]
  ELSE
    LET n == Len(res.bytes)
        lo == IF r.partCount = 1 \/ r.currentPart = 1 THEN r.firstPartCut ELSE 0
        hi == IF r.partCount = 1 \/ r.currentPart = r.partCount
              THEN r.lastPartCut ELSE n
        adv == [r EXCEPT !.currentPart = r.currentPart + 1,
                         !.offset = r.offset + ChunkSize]
    IN  IF ~SliceOK(res, lo, hi) THEN [r |-> r, chunk |-> <<>>, err |-> "panic"]
        ELSE [r |-> adv, chunk |-> Slice(res, lo, hi), err |-> "nil"]

\* downloader.go:147-152: does this Read issue a fetch
IssuesFetch(r, ctxErr) ==
  /\ r.bytesRead < r.contentLength
  /\ ~ctxErr
  /\ r.bufferPos >= Len(r.buffer)
  /\ r.currentPart <= r.partCount

\* downloader.go:75-86: does this Read call the part closure
CallsNext(r, ctxErr) ==
  /\ r.bytesRead < r.contentLength
  /\ ~ctxErr
  /\ r.bufferPos >= Len(r.buffer)

\* the chunks the part closure has returned, with the one of this Read
HandOut(h, r, ctxErr, res) ==
  IF CallsNext(r, ctxErr) THEN h \o PartStreamNext(r, res).chunk ELSE h

\* Read that returns (0, nil) instead of io.EOF once the window is emitted
TelegramReaderRead_NoEOF(r, n, ctxErr, res) ==
  IF r.bytesRead >= r.contentLength THEN [r |-> r, p |-> <<>>, err |-> "nil"]
  ELSE IF ctxErr THEN [r |-> r, p |-> <<>>, err |-> "ctx"]
  ELSE
    LET nx == IF r.bufferPos >= Len(r.buffer) THEN PartStreamNext(r, res)
              ELSE [r |-> r, chunk |-> r.buffer, err |-> "nil"]
        fetched == r.bufferPos >= Len(r.buffer)
        r1 == IF fetched THEN [nx.r EXCEPT !.buffer = nx.chunk] ELSE r
    IN  IF nx.err # "nil" THEN [r |-> r1, p |-> <<>>, err |-> nx.err]
        ELSE IF fetched /\ Len(nx.chunk) = 0 THEN [r |-> r1, p |-> <<>>, err |-> "EOF"]
        ELSE
          LET pos == IF fetched THEN 0 ELSE r.bufferPos
              cnt == Min(n, Len(r1.buffer) - pos)
          IN  [r |-> [r1 EXCEPT !.bufferPos = pos + cnt,
                                !.bytesRead = r.bytesRead + cnt],
               p |-> SubSeq(r1.buffer, pos + 1, pos + cnt),
               err |-> "nil"]

\* Read that reports an empty chunk as an error instead of EOF
TelegramReaderRead_EmptyIsError(r, n, ctxErr, res) ==
  IF r.bytesRead >= r.contentLength THEN [r |-> r, p |-> <<>>, err |-> "EOF"]
  ELSE IF ctxErr THEN [r |-> r, p |-> <<>>, err |-> "ctx"]
  ELSE
    LET nx == IF r.bufferPos >= Len(r.buffer) THEN PartStreamNext(r, res)
              ELSE [r |-> r, chunk |-> r.buffer, err |-> "nil"]
        fetched == r.bufferPos >= Len(r.buffer)
        r1 == IF fetched THEN [nx.r EXCEPT !.buffer = nx.chunk] ELSE r
    IN  IF nx.err # "nil" THEN [r |-> r1, p |-> <<>>, err |-> nx.err]
        ELSE IF fetched /\ Len(nx.chunk) = 0
          THEN [r |-> r1, p |-> <<>>, err |-> "unexpectedEOF"]
        ELSE
          LET pos == IF fetched THEN 0 ELSE r.bufferPos
              cnt == Min(n, Len(r1.buffer) - pos)
          IN  [r |-> [r1 EXCEPT !.bufferPos = pos + cnt,
                                !.bytesRead = r.bytesRead + cnt],
               p |-> SubSeq(r1.buffer, pos + 1, pos + cnt),
               err |-> "nil"]

\* Read that hides a failed fetch from its caller and returns (0, nil)
TelegramReaderRead_SwallowError(r, n, ctxErr, res) ==
  IF r.bytesRead >= r.contentLength THEN [r |-> r, p |-> <<>>, err |-> "EOF"]
  ELSE IF ctxErr THEN [r |-> r, p |-> <<>>, err |-> "ctx"]
  ELSE
    LET nx == IF r.bufferPos >= Len(r.buffer) THEN PartStreamNext(r, res)
              ELSE [r |-> r, chunk |-> r.buffer, err |-> "nil"]
        fetched == r.bufferPos >= Len(r.buffer)
        r1 == IF fetched THEN [nx.r EXCEPT !.buffer = nx.chunk] ELSE r
    IN  IF nx.err = "fetch" THEN [r |-> r1, p |-> <<>>, err |-> "nil"]
        ELSE IF nx.err # "nil" THEN [r |-> r1, p |-> <<>>, err |-> nx.err]
        ELSE IF fetched /\ Len(nx.chunk) = 0 THEN [r |-> r1, p |-> <<>>, err |-> "EOF"]
        ELSE
          LET pos == IF fetched THEN 0 ELSE r.bufferPos
              cnt == Min(n, Len(r1.buffer) - pos)
          IN  [r |-> [r1 EXCEPT !.bufferPos = pos + cnt,
                                !.bytesRead = r.bytesRead + cnt],
               p |-> SubSeq(r1.buffer, pos + 1, pos + cnt),
               err |-> "nil"]

\* Read without the check of the request context
TelegramReaderRead_NoCtxCheck(r, n, ctxErr, res) ==
  IF r.bytesRead >= r.contentLength THEN [r |-> r, p |-> <<>>, err |-> "EOF"]
  ELSE
    LET nx == IF r.bufferPos >= Len(r.buffer) THEN PartStreamNext(r, res)
              ELSE [r |-> r, chunk |-> r.buffer, err |-> "nil"]
        fetched == r.bufferPos >= Len(r.buffer)
        r1 == IF fetched THEN [nx.r EXCEPT !.buffer = nx.chunk] ELSE r
    IN  IF nx.err # "nil" THEN [r |-> r1, p |-> <<>>, err |-> nx.err]
        ELSE IF fetched /\ Len(nx.chunk) = 0 THEN [r |-> r1, p |-> <<>>, err |-> "EOF"]
        ELSE
          LET pos == IF fetched THEN 0 ELSE r.bufferPos
              cnt == Min(n, Len(r1.buffer) - pos)
          IN  [r |-> [r1 EXCEPT !.bufferPos = pos + cnt,
                                !.bytesRead = r.bytesRead + cnt],
               p |-> SubSeq(r1.buffer, pos + 1, pos + cnt),
               err |-> "nil"]

\* Read without r.bufferPos = 0 after the closure returned a new chunk
TelegramReaderRead_NoPosReset(r, n, ctxErr, res) ==
  IF r.bytesRead >= r.contentLength THEN [r |-> r, p |-> <<>>, err |-> "EOF"]
  ELSE IF ctxErr THEN [r |-> r, p |-> <<>>, err |-> "ctx"]
  ELSE
    LET nx == IF r.bufferPos >= Len(r.buffer) THEN PartStreamNext(r, res)
              ELSE [r |-> r, chunk |-> r.buffer, err |-> "nil"]
        fetched == r.bufferPos >= Len(r.buffer)
        r1 == IF fetched THEN [nx.r EXCEPT !.buffer = nx.chunk] ELSE r
    IN  IF nx.err # "nil" THEN [r |-> r1, p |-> <<>>, err |-> nx.err]
        ELSE IF fetched /\ Len(nx.chunk) = 0 THEN [r |-> r1, p |-> <<>>, err |-> "EOF"]
        ELSE
          LET pos == Min(r.bufferPos, Len(r1.buffer))
              cnt == Min(n, Len(r1.buffer) - pos)
          IN  [r |-> [r1 EXCEPT !.bufferPos = pos + cnt,
                                !.bytesRead = r.bytesRead + cnt],
               p |-> SubSeq(r1.buffer, pos + 1, pos + cnt),
               err |-> "nil"]

\* downloader.go:73-102: Read(p) with len(p) = n; ctxErr is r.ctx.Err() # nil
TelegramReaderRead(r, n, ctxErr, res) ==
  IF r.bytesRead >= r.contentLength THEN [r |-> r, p |-> <<>>, err |-> "EOF"]
  ELSE IF ctxErr THEN [r |-> r, p |-> <<>>, err |-> "ctx"]
  ELSE
    LET nx == IF r.bufferPos >= Len(r.buffer) THEN PartStreamNext(r, res)
              ELSE [r |-> r, chunk |-> r.buffer, err |-> "nil"]
        fetched == r.bufferPos >= Len(r.buffer)
        \* r.buffer, err = r.next() assigns the buffer also when it fails
        r1 == IF fetched THEN [nx.r EXCEPT !.buffer = nx.chunk] ELSE r
    IN  IF nx.err # "nil" THEN [r |-> r1, p |-> <<>>, err |-> nx.err]
        ELSE IF fetched /\ Len(nx.chunk) = 0 THEN [r |-> r1, p |-> <<>>, err |-> "EOF"]
        ELSE
          LET pos == IF fetched THEN 0 ELSE r.bufferPos
              cnt == Min(n, Len(r1.buffer) - pos)
          IN  [r |-> [r1 EXCEPT !.bufferPos = pos + cnt,
                                !.bytesRead = r.bytesRead + cnt],
               p |-> SubSeq(r1.buffer, pos + 1, pos + cnt),
               err |-> "nil"]

\* ------------------------------------------------------- the Range header sent
Forms == {"absent", "both", "open", "suffix", "spaced", "signed", "multi",
          "multiTrail", "multiBare", "noPrefix", "noDash", "threeParts",
          "badStart", "badEnd", "badSuffix", "dashOnly"}

Dash == <<"-">>

\* the header value of a form: what r.Header.Get("Range") returns, server.go:187
MkHeader(form, a, b) ==
  LET ab == Itoa(a) \o Dash \o Itoa(b)
  IN  CASE form = "absent" -> <<>>
        [] form = "both" -> BytesPrefix \o ab
        [] form = "open" -> BytesPrefix \o Itoa(a) \o Dash
        [] form = "suffix" -> BytesPrefix \o Dash \o Itoa(a)
        [] form = "spaced" -> BytesPrefix \o <<" ">> \o ab \o <<" ">>
        [] form = "signed" -> BytesPrefix \o <<"+">> \o ab
        [] form = "multi" -> BytesPrefix \o ab \o <<",">> \o Itoa(b) \o Dash
        [] form = "multiTrail" -> BytesPrefix \o Itoa(a) \o Dash \o <<",">>
        [] form = "multiBare" -> Itoa(a) \o Dash \o <<",">> \o Dash \o Itoa(a)
        [] form = "noPrefix" -> <<"b", "i", "t", "s", "=">> \o ab
        [] form = "noDash" -> BytesPrefix \o Itoa(a)
        [] form = "threeParts" -> BytesPrefix \o ab \o Dash \o Itoa(a)
        [] form = "badStart" -> BytesPrefix \o <<"x">> \o Dash \o Itoa(a)
        [] form = "badEnd" -> BytesPrefix \o Itoa(a) \o Dash \o <<"x">>
        [] form = "badSuffix" -> BytesPrefix \o Dash \o <<"x">>
        [] form = "dashOnly" -> BytesPrefix \o Dash

\* the numbers a form is written with
FormArgs(form) ==
  IF form = "both" THEN (0..MaxNum) \X ((0 - 1)..MaxNum)
  ELSE IF form \in {"spaced", "signed", "multi", "noPrefix"}
    THEN (0..MaxNum) \X (0..MaxNum)
  ELSE IF form \in {"absent", "badSuffix", "dashOnly"} THEN {<<0, 0>>}
  ELSE (0..MaxNum) \X {0}

\* ------------------------------------------------------ http.ResponseWriter
\* header: the handler's header map; sent: the status line and the headers
\* that went out, fixed by the first WriteHeader; errText: the text http.Error
\* wrote as the body
NewWriter ==
  [header |-> <<>>, wroteHeader |-> FALSE, status |-> 0, sent |-> <<>>,
   errText |-> ""]

\* a header map is a function from the names that are set to their values;
\* an empty map is <<>>
HSet(h, k, v) == [x \in (DOMAIN h) \cup {k} |-> IF x = k THEN v ELSE h[x]]

HasHeader(h, k) == k \in DOMAIN h

\* w.Header().Set(k, v): it always changes the handler's map, and the
\* response only when the header has not been written yet
SetHeader(wr, k, v) == [wr EXCEPT !.header = HSet(wr.header, k, v)]

\* w.WriteHeader(code): the first call fixes the status and the headers
WriteHeader(wr, code) ==
  IF wr.wroteHeader THEN wr
  ELSE [wr EXCEPT !.wroteHeader = TRUE, !.status = code, !.sent = wr.header]

\* http.Error(w, msg, code)
HttpError(wr, msg, code) ==
  LET w1 == SetHeader(wr, "Content-Type", <<"text/plain; charset=utf-8">>)
      w2 == SetHeader(w1, "X-Content-Type-Options", <<"nosniff">>)
      w3 == WriteHeader(w2, code)
  IN  [w3 EXCEPT !.errText = msg]

\* -------------------------------------------------------- server/server.go
\* server.go:174-184 with storage.go:89-103: the metadata of a link
GetFileByLink(linkID, dbFails, size) ==
  IF dbFails THEN [err |-> TRUE, found |-> FALSE, FileSize |-> 0]
  ELSE IF linkID = "known" THEN [err |-> FALSE, found |-> TRUE, FileSize |-> size]
  ELSE [err |-> FALSE, found |-> FALSE, FileSize |-> 0]

\* CommitHeaders that declares the file size as the length of a partial response
CommitHeaders_FileSizeLength(wr, rangeHeader, r, FileSize) ==
  LET w1 == SetHeader(wr, "Accept-Ranges", <<"bytes">>)
      w2 == SetHeader(w1, "Content-Type", <<"meta.MimeType">>)
      w3 == SetHeader(w2, "Content-Disposition",
                      <<"attachment; filename=\"meta.FileName\"">>)
  IN  IF rangeHeader # <<>> /\ (r.Start # 0 \/ r.End # FileSize - 1) THEN
        WriteHeader(
          SetHeader(SetHeader(w3, "Content-Range", ContentRange(r, FileSize)),
                    "Content-Length", Itoa(FileSize)),
          206)
      ELSE
        WriteHeader(SetHeader(w3, "Content-Length", Itoa(FileSize)), 200)

\* CommitHeaders that answers 206 to every request with a Range header
CommitHeaders_AlwaysPartial(wr, rangeHeader, r, FileSize) ==
  LET w1 == SetHeader(wr, "Accept-Ranges", <<"bytes">>)
      w2 == SetHeader(w1, "Content-Type", <<"meta.MimeType">>)
      w3 == SetHeader(w2, "Content-Disposition",
                      <<"attachment; filename=\"meta.FileName\"">>)
  IN  IF rangeHeader # <<>> THEN
        WriteHeader(
          SetHeader(SetHeader(w3, "Content-Range", ContentRange(r, FileSize)),
                    "Content-Length", Itoa(r.Length)),
          206)
      ELSE
        WriteHeader(SetHeader(w3, "Content-Length", Itoa(FileSize)), 200)

\* CommitHeaders that looks at the start of the range only
CommitHeaders_StartOnly(wr, rangeHeader, r, FileSize) ==
  LET w1 == SetHeader(wr, "Accept-Ranges", <<"bytes">>)
      w2 == SetHeader(w1, "Content-Type", <<"meta.MimeType">>)
      w3 == SetHeader(w2, "Content-Disposition",
                      <<"attachment; filename=\"meta.FileName\"">>)
  IN  IF rangeHeader # <<>> /\ r.Start # 0 THEN
        WriteHeader(
          SetHeader(SetHeader(w3, "Content-Range", ContentRange(r, FileSize)),
                    "Content-Length", Itoa(r.Length)),
          206)
      ELSE
        WriteHeader(SetHeader(w3, "Content-Length", Itoa(FileSize)), 200)

\* CommitHeaders that sets the headers and leaves the status line to the
\* first write of the body
CommitHeaders_NoWriteHeader(wr, rangeHeader, r, FileSize) ==
  LET w1 == SetHeader(wr, "Accept-Ranges", <<"bytes">>)
      w2 == SetHeader(w1, "Content-Type", <<"meta.MimeType">>)
      w3 == SetHeader(w2, "Content-Disposition",
                      <<"attachment; filename=\"meta.FileName\"">>)
  IN  IF rangeHeader # <<>> /\ (r.Start # 0 \/ r.End # FileSize - 1) THEN
        SetHeader(SetHeader(w3, "Content-Range", ContentRange(r, FileSize)),
                  "Content-Length", Itoa(r.Length))
      ELSE
        SetHeader(w3, "Content-Length", Itoa(FileSize))

\* server.go:195-213: the headers and the status of a streamed response
CommitHeaders(wr, rangeHeader, r, FileSize) ==
  LET w1 == SetHeader(wr, "Accept-Ranges", <<"bytes">>)
      w2 == SetHeader(w1, "Content-Type", <<"meta.MimeType">>)
      w3 == SetHeader(w2, "Content-Disposition",
                      <<"attachment; filename=\"meta.FileName\"">>)
  IN  IF rangeHeader # <<>> /\ (r.Start # 0 \/ r.End # FileSize - 1) THEN
        WriteHeader(
          SetHeader(SetHeader(w3, "Content-Range", ContentRange(r, FileSize)),
                    "Content-Length", Itoa(r.Length)),
          206)
      ELSE
        WriteHeader(SetHeader(w3, "Content-Length", Itoa(FileSize)), 200)

\* handleDownload without the return after the 416: it goes on to stream the
\* whole file
ServeHeaders_NoReturn(linkID, dbFails, rangeHeader, size) ==
  LET stop(wr) == [w |-> wr, range |-> NoRange, stream |-> FALSE]
      meta == GetFileByLink(linkID, dbFails, size)
      parsed == ParseRange(rangeHeader, meta.FileSize)
      whole == [Start |-> 0, End |-> meta.FileSize - 1, Length |-> meta.FileSize]
      range == IF parsed.err THEN whole ELSE parsed.range
      w0 == IF parsed.err THEN HttpError(NewWriter, "Invalid range", 416)
            ELSE NewWriter
  IN  IF linkID = "" THEN stop(HttpError(NewWriter, "Invalid link", 400))
      ELSE IF meta.err THEN stop(HttpError(NewWriter, "Internal server error", 500))
      ELSE IF ~meta.found THEN stop(HttpError(NewWriter, "File not found", 404))
      ELSE [w |-> CommitHeaders(w0, rangeHeader, range, meta.FileSize),
            range |-> range,
            stream |-> TRUE]

\* server.go:163-213: handleDownload up to the start of the stream
ServeHeaders(linkID, dbFails, rangeHeader, size) ==
  LET stop(wr) == [w |-> wr, range |-> NoRange, stream |-> FALSE]
      meta == GetFileByLink(linkID, dbFails, size)
      parsed == ParseRange(rangeHeader, meta.FileSize)
  IN  IF linkID = "" THEN stop(HttpError(NewWriter, "Invalid link", 400))
      ELSE IF meta.err THEN stop(HttpError(NewWriter, "Internal server error", 500))
      ELSE IF ~meta.found THEN stop(HttpError(NewWriter, "File not found", 404))
      ELSE IF parsed.err THEN
        stop(SetHeader(HttpError(NewWriter, "Invalid range", 416),
                       "Content-Range",
                       <<"b", "y", "t", "e", "s", " ", "*", "/">>
                         \o Itoa(meta.FileSize)))
      ELSE [w |-> CommitHeaders(NewWriter, rangeHeader, parsed.range, meta.FileSize),
            range |-> parsed.range,
            stream |-> TRUE]

\* ------------------------------------------------------------------- state
VARIABLES
  fileSize,     \* meta.FileSize of the stored file
  pc,           \* "idle", "read", "write", "done", "panic"
  req,          \* the request as sent: link, form and numbers of its header
  rangeHeader,  \* r.Header.Get("Range")
  httpRange,    \* the HTTPRange ParseRange returned
  streamed,     \* the handler opened a TelegramReader
  w,            \* the http.ResponseWriter
  body,         \* file bytes written to w by io.Copy
  reader,       \* the TelegramReader
  pending,      \* bytes the last Read returned, not yet written
  emitted,      \* every byte Read has returned so far
  handed,       \* the chunks the part closure has returned, concatenated
  cancelled,    \* r.Context() is done
  fetches,      \* the UploadGetFile calls issued, in order
  copyErr,      \* what io.Copy returned: "", "nil", "fetch", "ctx", "write"
  seg,          \* split run: 0 not started, 1..3 the stream being drained, 4 done
  splitK,       \* split run: the split point
  outs,         \* split run: the bytes of the three streams
  rdOpen,       \* direct use: a caller holds a TelegramReader
  rdLast,       \* direct use: the error of the caller's last Read
  rdAfter,      \* direct use: Read calls made after the first EOF or error
  creq,         \* concurrent run: per request its pc, window, pending, body
  creaders      \* concurrent run: the TelegramReader objects

vars == <<fileSize, pc, req, rangeHeader, httpRange, streamed, w, body, reader,
          pending, emitted, handed, cancelled, fetches, copyErr, seg, splitK,
          outs,
          rdOpen, rdLast, rdAfter, creq, creaders>>

handlerVars == <<pc, req, rangeHeader, httpRange, streamed, w, body, pending,
                 cancelled, copyErr>>

splitVars == <<seg, splitK, outs>>

apiVars == <<rdOpen, rdLast, rdAfter>>

concVars == <<creq, creaders>>

NoReq == [link |-> "", dbFails |-> FALSE, form |-> "absent", a |-> 0, b |-> 0]

NoReader ==
  [start |-> 0, end |-> 0, contentLength |-> 0, buffer |-> <<>>,
   bufferPos |-> 0, bytesRead |-> 0, offset |-> 0, firstPartCut |-> 0,
   lastPartCut |-> 0, partCount |-> 0, currentPart |-> 0]

\* the requests served concurrently
Requests == {1, 2}

NoConcReq == [pc |-> "idle", win |-> <<0, 0>>, pending |-> <<>>, body |-> <<>>]

Init ==
  /\ fileSize \in 0..MaxSize
  /\ pc = "idle"
  /\ req = NoReq
  /\ rangeHeader = <<>>
  /\ httpRange = NoRange
  /\ streamed = FALSE
  /\ w = NewWriter
  /\ body = <<>>
  /\ reader = NoReader
  /\ pending = <<>>
  /\ emitted = <<>>
  /\ handed = <<>>
  /\ cancelled = FALSE
  /\ fetches = <<>>
  /\ copyErr = ""
  /\ seg = 0
  /\ splitK = 0
  /\ outs = <<<<>>, <<>>, <<>>>>
  /\ rdOpen = FALSE
  /\ rdLast = ""
  /\ rdAfter = 0
  /\ creq = [i \in Requests |-> NoConcReq]
  /\ creaders = [i \in Requests |-> NoReader]

\* server.go:163-229: a request arrives and the handler runs up to io.Copy
HandleDownload ==
  /\ pc = "idle"
  /\ \E link \in {"", "known", "missing"}, dbFails \in BOOLEAN, form \in Forms :
       \E ab \in FormArgs(form) :
         LET hdr == MkHeader(form, ab[1], ab[2])
             res == ServeHeaders(link, dbFails, hdr, fileSize)
         IN  /\ req' = [link |-> link, dbFails |-> dbFails, form |-> form,
                        a |-> ab[1], b |-> ab[2]]
             /\ rangeHeader' = hdr
             /\ w' = res.w
             /\ httpRange' = res.range
             /\ streamed' = res.stream
             /\ reader' = IF res.stream
                          THEN NewTelegramReader(res.range.Start, res.range.End)
                          ELSE reader
             /\ pc' = IF res.stream THEN "read" ELSE "done"
  /\ UNCHANGED <<fileSize, body, pending, emitted, handed, cancelled, fetches,
                 copyErr>>
  /\ UNCHANGED <<splitVars, apiVars, concVars>>

\* the fetch a Read issues, appended to the log
LogFetch(log, r, res) ==
  IF res.kind = "none" THEN log
  ELSE Append(log, [offset |-> r.offset, limit |-> ChunkSize, kind |-> res.kind])

\* server.go:232, io.Copy: one reader.Read(p)
Read ==
  /\ pc = "read"
  /\ \E n \in 1..MaxBuf :
       \E res \in (IF IssuesFetch(reader, cancelled)
                   THEN ChunkResults(reader.offset, ChunkSize, fileSize)
                   ELSE {NoFetch}) :
         LET out == TelegramReaderRead(reader, n, cancelled, res)
         IN  /\ reader' = out.r
             /\ fetches' = LogFetch(fetches, reader, res)
             /\ pending' = out.p
             /\ emitted' = emitted \o out.p
             /\ handed' = HandOut(handed, reader, cancelled, res)
             /\ pc' = CASE out.err = "nil" -> "write"
                        [] out.err = "panic" -> "panic"
                        [] OTHER -> "done"
             /\ copyErr' = CASE out.err = "nil" -> copyErr
                             [] out.err = "EOF" -> "nil"
                             [] OTHER -> out.err
  /\ UNCHANGED <<fileSize, req, rangeHeader, httpRange, streamed, w, body, cancelled>>
  /\ UNCHANGED <<splitVars, apiVars, concVars>>

\* server.go:232, io.Copy: w.Write of what Read returned; once the client is
\* gone the write may fail
Write ==
  /\ pc = "write"
  /\ \/ /\ body' = body \o pending
        /\ pc' = "read"
        /\ UNCHANGED copyErr
     \/ /\ cancelled
        /\ pc' = "done"
        /\ copyErr' = "write"
        /\ UNCHANGED body
  /\ pending' = <<>>
  /\ UNCHANGED <<fileSize, req, rangeHeader, httpRange, streamed, w, reader,
                 emitted, handed, cancelled, fetches>>
  /\ UNCHANGED <<splitVars, apiVars, concVars>>

\* server.go:216: the client disconnects and the request context is cancelled
Cancel ==
  /\ pc \in {"read", "write"}
  /\ ~cancelled
  /\ cancelled' = TRUE
  /\ UNCHANGED <<fileSize, pc, req, rangeHeader, httpRange, streamed, w, body,
                 reader, pending, emitted, handed, fetches, copyErr>>
  /\ UNCHANGED <<splitVars, apiVars, concVars>>

Next == HandleDownload \/ Read \/ Write \/ Cancel

Spec == Init /\ [][Next]_vars

\* ------------------------------------------------ split run of three streams
\* the fetch of a backend that returns the full aligned chunk
FullResult(offset, limit, totalSize) ==
  [kind |-> "full", bytes |-> FullChunk(offset, limit, totalSize),
   cap |-> Len(FullChunk(offset, limit, totalSize))]

\* the window each of the three streams is opened on: [0, k-1], [k, size-1]
\* and [0, size-1]
SegWindow(i, k, size) ==
  CASE i = 1 -> <<0, k - 1>>
    [] i = 2 -> <<k, size - 1>>
    [] OTHER -> <<0, size - 1>>

\* NewTelegramReader on [0, k-1]
SplitStart ==
  /\ seg = 0
  /\ fileSize >= 2
  /\ \E k \in 1..(fileSize - 1) :
       /\ splitK' = k
       /\ reader' = NewTelegramReader(SegWindow(1, k, fileSize)[1],
                                      SegWindow(1, k, fileSize)[2])
  /\ seg' = 1
  /\ UNCHANGED <<fileSize, emitted, handed, fetches, outs>>
  /\ UNCHANGED <<handlerVars, apiVars, concVars>>

\* one Read of the stream being drained; at EOF the next stream is opened
SplitRead ==
  /\ seg \in 1..3
  /\ \E n \in 1..MaxBuf :
       LET res == IF IssuesFetch(reader, FALSE)
                  THEN FullResult(reader.offset, ChunkSize, fileSize)
                  ELSE NoFetch
           out == TelegramReaderRead(reader, n, FALSE, res)
           nxt == SegWindow(seg + 1, splitK, fileSize)
       IN  /\ fetches' = LogFetch(fetches, reader, res)
           /\ emitted' = emitted \o out.p
           /\ handed' = HandOut(handed, reader, FALSE, res)
           /\ outs' = [outs EXCEPT ![seg] = @ \o out.p]
           /\ seg' = CASE out.err = "nil" -> seg
                       [] out.err = "EOF" -> seg + 1
                       [] OTHER -> 5
           /\ reader' = IF out.err = "EOF" /\ seg < 3
                        THEN NewTelegramReader(nxt[1], nxt[2])
                        ELSE out.r
  /\ UNCHANGED <<fileSize, splitK>>
  /\ UNCHANGED <<handlerVars, apiVars, concVars>>

SplitNext == SplitStart \/ SplitRead

SplitSpec == Init /\ [][SplitNext]_vars

\* ------------------------------------------- the handler under fair scheduling
\* the goroutine of the handler keeps running: io.Copy's Read and Write are
\* taken whenever they stay enabled
FairSpec == Spec /\ WF_vars(Read) /\ WF_vars(Write)

\* ------------------------------------- a TelegramReader used by any caller
\* the windows a caller opens a reader on: those ParseRange can return
Windows(size) ==
  {<<0, size - 1>>}
    \cup {win \in (0..(size - 1)) \X (0..(size - 1)) : win[1] <= win[2]}

\* downloader.go:34-65: a caller opens a reader
ApiOpen ==
  /\ ~rdOpen
  /\ pc = "idle"
  /\ seg = 0
  /\ \E win \in Windows(fileSize) :
       reader' = NewTelegramReader(win[1], win[2])
  /\ rdOpen' = TRUE
  /\ UNCHANGED <<fileSize, emitted, handed, cancelled, fetches, rdLast, rdAfter>>
  /\ UNCHANGED <<pc, req, rangeHeader, httpRange, streamed, w, body, pending, copyErr>>
  /\ UNCHANGED <<splitVars, concVars>>

\* downloader.go:73-102: the caller calls Read, also after Read has returned
\* EOF or an error (as often as MaxAfter allows)
ApiRead ==
  /\ rdOpen
  /\ rdLast # "panic"
  /\ rdLast \in {"", "nil"} \/ rdAfter < MaxAfter
  /\ \E n \in 1..MaxBuf :
       \E res \in (IF IssuesFetch(reader, cancelled)
                   THEN ChunkResults(reader.offset, ChunkSize, fileSize)
                   ELSE {NoFetch}) :
         LET out == TelegramReaderRead(reader, n, cancelled, res)
         IN  /\ reader' = out.r
             /\ fetches' = LogFetch(fetches, reader, res)
             /\ emitted' = emitted \o out.p
             /\ handed' = HandOut(handed, reader, cancelled, res)
             /\ rdLast' = out.err
  /\ rdAfter' = IF rdLast \in {"", "nil"} THEN rdAfter ELSE rdAfter + 1
  /\ UNCHANGED <<fileSize, cancelled, rdOpen>>
  /\ UNCHANGED <<pc, req, rangeHeader, httpRange, streamed, w, body, pending, copyErr>>
  /\ UNCHANGED <<splitVars, concVars>>

\* the context the reader was opened with is cancelled
ApiCancel ==
  /\ rdOpen
  /\ ~cancelled
  /\ cancelled' = TRUE
  /\ UNCHANGED <<fileSize, reader, emitted, handed, fetches>>
  /\ UNCHANGED <<pc, req, rangeHeader, httpRange, streamed, w, body, pending, copyErr>>
  /\ UNCHANGED <<splitVars, apiVars, concVars>>

ApiNext == ApiOpen \/ ApiRead \/ ApiCancel

ReaderSpec == Init /\ [][ApiNext]_vars

\* ------------------------------------------------- two concurrent requests
\* ReaderOf with one reader object shared by every request
ReaderOf_Shared(i) == 1

\* server.go:220-228 with downloader.go:52-59: the reader a request's handler
\* uses is the one its own call of NewTelegramReader allocated
ReaderOf(i) == i

\* server.go:220-228: handler i opens its reader on a window of the file
ConcOpen ==
  /\ fileSize <= MaxConcSize
  /\ \E i \in Requests :
       /\ creq[i].pc = "idle"
       /\ \E win \in Windows(fileSize) :
            /\ creq' = [creq EXCEPT ![i] = [pc |-> "read", win |-> win,
                                            pending |-> <<>>, body |-> <<>>]]
            /\ creaders' = [creaders EXCEPT ![ReaderOf(i)] =
                              NewTelegramReader(win[1], win[2])]
  /\ UNCHANGED <<fileSize, reader, emitted, handed, fetches>>
  /\ UNCHANGED <<handlerVars, splitVars, apiVars>>

\* the Read of handler i, given the result of its fetch
ConcReadResult(i, n, res) ==
  LET out == TelegramReaderRead(creaders[ReaderOf(i)], n, FALSE, res)
  IN  /\ creaders' = [creaders EXCEPT ![ReaderOf(i)] = out.r]
      /\ creq' = [creq EXCEPT ![i].pending = out.p,
                              ![i].pc = CASE out.err = "nil" -> "write"
                                          [] out.err = "EOF" -> "done"
                                          [] OTHER -> "failed"]

\* downloader.go:73-102: handler i calls Read; a Read that needs a chunk
\* issues the fetch and waits for it
ConcRead ==
  /\ \E i \in Requests :
       /\ creq[i].pc = "read"
       /\ IF IssuesFetch(creaders[ReaderOf(i)], FALSE)
          THEN /\ creq' = [creq EXCEPT ![i].pc = "fetch"]
               /\ UNCHANGED creaders
          ELSE \E n \in 1..MaxBuf : ConcReadResult(i, n, NoFetch)
  /\ UNCHANGED <<fileSize, reader, emitted, handed, fetches>>
  /\ UNCHANGED <<handlerVars, splitVars, apiVars>>

\* downloader.go:112-119: the fetch of handler i returns the full aligned
\* chunk and its Read completes
ConcFetchDone ==
  /\ \E i \in Requests :
       /\ creq[i].pc = "fetch"
       /\ \E n \in 1..MaxBuf :
            ConcReadResult(i, n,
              IF IssuesFetch(creaders[ReaderOf(i)], FALSE)
              THEN FullResult(creaders[ReaderOf(i)].offset, ChunkSize, fileSize)
              ELSE NoFetch)
  /\ UNCHANGED <<fileSize, reader, emitted, handed, fetches>>
  /\ UNCHANGED <<handlerVars, splitVars, apiVars>>

\* server.go:232: handler i writes what its Read returned
ConcWrite ==
  /\ \E i \in Requests :
       /\ creq[i].pc = "write"
       /\ creq' = [creq EXCEPT ![i].body = @ \o creq[i].pending,
                               ![i].pending = <<>>,
                               ![i].pc = "read"]
  /\ UNCHANGED <<fileSize, reader, emitted, handed, fetches, creaders>>
  /\ UNCHANGED <<handlerVars, splitVars, apiVars>>

ConcNext == ConcOpen \/ ConcRead \/ ConcFetchDone \/ ConcWrite

ConcSpec == Init /\ [][ConcNext]_vars

\* ------------------------------------------------------------------ claims
\* content[s..e]
Window(s, e) == [i \in 1..(e - s + 1) |-> Content(s + i - 1)]

\* the request reached the handler's range parsing
Parsed == pc # "idle" /\ req.link = "known" /\ ~req.dbFails

\* the stream ran to EOF with every fetch answered by the full aligned chunk,
\* without error or cancellation
FullRun ==
  /\ pc = "done"
  /\ streamed
  /\ copyErr = "nil"
  /\ ~cancelled
  /\ \A i \in 1..Len(fetches) : fetches[i].kind = "full"

\* C1: a TelegramReader opened on a window 0 <= start <= end < totalSize and
\* drained to EOF against full aligned chunks, without error or cancellation,
\* has emitted exactly end-start+1 bytes, and they are content[start..end].
C1_ExactWindow ==
  (FullRun /\ 0 <= httpRange.Start /\ httpRange.Start <= httpRange.End
     /\ httpRange.End < fileSize)
  => /\ Len(emitted) = httpRange.End - httpRange.Start + 1
     /\ emitted = Window(httpRange.Start, httpRange.End)

C1_Witness ==
  /\ FullRun
  /\ reader.partCount >= 3
  /\ reader.firstPartCut > 0
  /\ reader.lastPartCut < ChunkSize
  /\ httpRange.End < fileSize - 1
  /\ emitted = Window(httpRange.Start, httpRange.End)

\* C2: for every request that reaches streaming, the Content-Length sent is
\* the decimal form of the resolved range's length, in the 200 and in the 206
\* branch, and the headers are committed before any body byte is written.
C2_ContentLength ==
  /\ streamed =>
       /\ w.wroteHeader
       /\ w.status \in {200, 206}
       /\ HasHeader(w.sent, "Content-Length")
       /\ w.sent["Content-Length"] = Itoa(httpRange.End - httpRange.Start + 1)
       /\ httpRange.Length = httpRange.End - httpRange.Start + 1
  /\ body # <<>> => (w.wroteHeader /\ HasHeader(w.sent, "Content-Length"))

C2_Witness ==
  /\ streamed
  /\ w.status = 206
  /\ body # <<>>
  /\ httpRange.Length >= 10
  /\ w.sent["Content-Length"] = <<"1", "0">>

\* the resolved range is the whole file
IsFullFile == httpRange.Start = 0 /\ httpRange.End = fileSize - 1

StarRange(totalSize) ==
  <<"b", "y", "t", "e", "s", " ", "*", "/">> \o Itoa(totalSize)

\* C4: when ParseRange fails for a known link, the response delivered to the
\* client has status 416, carries Content-Range: bytes */<totalSize> and has
\* no body.
C4_Claim ==
  (Parsed /\ ParseRange(rangeHeader, fileSize).err) =>
    /\ w.status = 416
    /\ HasHeader(w.sent, "Content-Range")
    /\ w.sent["Content-Range"] = StarRange(fileSize)
    /\ w.errText = ""
    /\ body = <<>>

\* C5: a request answered 404 or 416 never opens a stream: no chunk fetch is
\* issued, no Read returns a byte and no file byte is written.
C5_NoStreamOnError ==
  w.status \in {404, 416} =>
    /\ ~streamed
    /\ pc = "done"
    /\ fetches = <<>>
    /\ emitted = <<>>
    /\ body = <<>>

C5_Witness ==
  /\ w.status = 416
  /\ req.form = "open"
  /\ req.a >= fileSize
  /\ fileSize > 0
  /\ pc = "done"

\* C6 as claimed: every HTTPRange ParseRange returns without error, for every
\* totalSize >= 0 and every header, the absent one included, has start >= 0,
\* end >= start, end < totalSize and Length = end-start+1.
C6_Claim ==
  (Parsed /\ streamed) =>
    /\ httpRange.Start >= 0
    /\ httpRange.End >= httpRange.Start
    /\ httpRange.End < fileSize
    /\ httpRange.Length = httpRange.End - httpRange.Start + 1

\* C6 as amended: every HTTPRange ParseRange returns without error has
\* start >= 0, end < totalSize and Length = end-start+1, and end >= start
\* whenever totalSize >= 1; for totalSize = 0 only the absent header is
\* accepted and its range is {0, -1, 0}.
C6_RangeInvariant ==
  (Parsed /\ streamed) =>
    /\ httpRange = ParseRange(rangeHeader, fileSize).range
    /\ httpRange.Start >= 0
    /\ httpRange.End < fileSize
    /\ httpRange.Length = httpRange.End - httpRange.Start + 1
    /\ fileSize >= 1 => httpRange.End >= httpRange.Start
    /\ fileSize = 0 =>
         /\ rangeHeader = <<>>
         /\ httpRange = [Start |-> 0, End |-> 0 - 1, Length |-> 0]

C6_Witness ==
  /\ Parsed
  /\ streamed
  /\ req.form = "both"
  /\ httpRange.Start > 0
  /\ httpRange.End = fileSize - 1
  /\ httpRange.Length > 1

\* what the handler made of the request's header: rejected, or the range
Outcome == [err |-> ~streamed, range |-> httpRange]

\* the request is "bytes=-N"
IsSuffixReq == Parsed /\ req.form = "suffix"

\* C7 as claimed: for every S and N, "bytes=-N" has the outcome of
\* "bytes=<S-N>-<S-1>" when N <= S, and gives start = 0, end = S-1 when N > S.
C7_Claim ==
  IsSuffixReq =>
    /\ req.a <= fileSize =>
         Outcome = ParseRange(MkHeader("both", fileSize - req.a, fileSize - 1),
                              fileSize)
    /\ req.a > fileSize =>
         (streamed /\ httpRange.Start = 0 /\ httpRange.End = fileSize - 1)

\* C7 as amended: for every S and N, "bytes=-N" has the outcome of
\* "bytes=<S-N>-<S-1>" when N <= S; when N > S it gives start = 0, end = S-1
\* if S >= 1, and is rejected if S = 0.
C7_SuffixEquivalence ==
  IsSuffixReq =>
    /\ req.a <= fileSize =>
         Outcome = ParseRange(MkHeader("both", fileSize - req.a, fileSize - 1),
                              fileSize)
    /\ (req.a > fileSize /\ fileSize >= 1) =>
         /\ streamed
         /\ httpRange = [Start |-> 0, End |-> fileSize - 1, Length |-> fileSize]
    /\ (req.a > fileSize /\ fileSize = 0) => (~streamed /\ w.status = 416)

C7_Witness ==
  /\ IsSuffixReq
  /\ req.a > fileSize
  /\ fileSize >= 1
  /\ streamed
  /\ httpRange.Start = 0

\* the range spec of the header contains a comma
HasComma == \E i \in 1..Len(rangeHeader) : rangeHeader[i] = ","

\* C8: a header with a comma is rejected whatever its sub-ranges and the file
\* size are, and the request is answered 416 without any fetch.
C8_CommaRejected ==
  (Parsed /\ HasComma) =>
    /\ ~streamed
    /\ w.status = 416
    /\ fetches = <<>>
    /\ pc = "done"

C8_Witness ==
  /\ Parsed
  /\ req.form = "multi"
  /\ req.a <= req.b
  /\ req.b < fileSize
  /\ w.status = 416

\* the request's header has one of the three forms, written with numbers
IsRangeForm == Parsed /\ req.form \in {"both", "open", "suffix"}

\* the start and the end the three forms denote
ReqStart ==
  CASE req.form = "suffix" -> IF fileSize - req.a < 0 THEN 0 ELSE fileSize - req.a
    [] OTHER -> req.a

ReqEnd ==
  CASE req.form = "both" -> req.b
    [] OTHER -> fileSize - 1

\* C9: for the forms start-end, start- and -suffix and every totalSize, the
\* header is rejected whenever its end is >= totalSize or < its start; an end
\* past the file is never clamped to totalSize-1.
C9_OutOfBoundsRejected ==
  IsRangeForm =>
    /\ (ReqEnd >= fileSize \/ ReqEnd < ReqStart) => (~streamed /\ w.status = 416)
    /\ streamed => (httpRange.Start = ReqStart /\ httpRange.End = ReqEnd)

C9_Witness ==
  /\ IsRangeForm
  /\ req.form = "both"
  /\ req.a < fileSize
  /\ req.b >= fileSize
  /\ w.status = 416

\* C10: for every totalSize >= 2 and split point 0 < k < totalSize, against a
\* backend returning full aligned chunks, the stream for [0, k-1] followed by
\* the stream for [k, totalSize-1] is the stream for [0, totalSize-1].
C10_SplitConcat ==
  seg >= 4 =>
    /\ seg = 4
    /\ outs[1] \o outs[2] = outs[3]

C10_Witness ==
  /\ seg = 4
  /\ splitK % ChunkSize # 0
  /\ splitK > ChunkSize
  /\ fileSize - splitK > ChunkSize
  /\ Len(outs[1]) = splitK
  /\ Len(outs[3]) = fileSize

\* the offsets at which the log holds a fetch of the given kind
FetchesOfKind(kind) == {i \in 1..Len(fetches) : fetches[i].kind = kind}

\* C11: a zero-length chunk fetched before the planned number of parts has
\* been delivered ends the stream at that pull with EOF, the handler finishes
\* without an error, and fewer bytes than the range length were emitted.
C11_EmptyChunkEndsStream ==
  \A i \in FetchesOfKind("empty") :
    /\ i = Len(fetches)
    /\ reader.currentPart <= reader.partCount
    /\ pc = "done"
    /\ copyErr = "nil"
    /\ pending = <<>>
    /\ body = emitted
    /\ Len(emitted) < httpRange.Length

C11_Witness ==
  /\ FetchesOfKind("empty") # {}
  /\ Len(fetches) >= 2
  /\ emitted # <<>>
  /\ copyErr = "nil"

\* C12: a failed fetch makes the pull that issued it return the error with
\* zero bytes; that offset was fetched once, and the handler writes no more
\* bytes and issues no more fetches for the request.
C12_FetchErrorEndsStream ==
  \A i \in FetchesOfKind("error") :
    /\ i = Len(fetches)
    /\ \A j \in 1..Len(fetches) : fetches[j].offset = fetches[i].offset => j = i
    /\ pc = "done"
    /\ copyErr = "fetch"
    /\ pending = <<>>
    /\ body = emitted

C12_Witness ==
  /\ FetchesOfKind("error") # {}
  /\ Len(fetches) >= 2
  /\ body # <<>>
  /\ copyErr = "fetch"

\* the context is done and the window is not yet fully emitted
CancelledMidStream ==
  streamed /\ cancelled /\ reader.bytesRead < reader.contentLength

AlignedOffset == httpRange.Start - (httpRange.Start % ChunkSize)

\* C14: the k-th fetch of a stream (k = 0, 1, ...) is at offset
\* alignedOffset + k*ChunkSize with limit ChunkSize: offsets are multiples of
\* ChunkSize, strictly ascending, and none is fetched twice.
C14_FetchOffsets ==
  streamed =>
    /\ \A i \in 1..Len(fetches) :
         /\ fetches[i].offset = AlignedOffset + (i - 1) * ChunkSize
         /\ fetches[i].offset % ChunkSize = 0
         /\ fetches[i].limit = ChunkSize
    /\ \A i, j \in 1..Len(fetches) : i < j => fetches[i].offset < fetches[j].offset

C14_Witness ==
  /\ streamed
  /\ Len(fetches) >= 2
  /\ httpRange.Start % ChunkSize # 0
  /\ fetches[1].offset > 0

AllFull == \A i \in 1..Len(fetches) : fetches[i].kind = "full"

\* the resolved range is a window 0 <= start <= end < totalSize
ValidWindow ==
  /\ 0 <= httpRange.Start
  /\ httpRange.Start <= httpRange.End
  /\ httpRange.End < fileSize

\* the least n with n * d >= x
CeilDiv(x, d) == CHOOSE n \in 0..x : n * d >= x /\ (n - 1) * d < x

\* C18: a stream that runs to completion against full aligned chunks issues
\* exactly ceil((end - alignedOffset + 1) / ChunkSize) fetches, the value the
\* code computes as (end - offset + ChunkSize) / ChunkSize, and none after
\* the last byte of the window has been emitted.
C18_FetchCount ==
  (streamed /\ ValidWindow /\ AllFull) =>
    LET parts == CeilDiv(httpRange.End - AlignedOffset + 1, ChunkSize)
    IN  /\ parts = (httpRange.End - AlignedOffset + ChunkSize) \div ChunkSize
        /\ reader.partCount = parts
        /\ Len(fetches) <= parts
        /\ Len(emitted) = httpRange.Length => Len(fetches) = parts
        /\ FullRun => (Len(fetches) = parts /\ Len(emitted) = httpRange.Length)

C18_Witness ==
  /\ FullRun
  /\ ValidWindow
  /\ Len(fetches) = 2
  /\ httpRange.Length <= ChunkSize
  /\ Len(emitted) = httpRange.Length

IsPrefix(a, b) == Len(a) <= Len(b) /\ a = SubSeq(b, 1, Len(a))

\* no fetch returned a non-empty chunk shorter than the aligned chunk
NoShort == FetchesOfKind("short") = {}

\* C19: at every point of a stream, however it ends, the bytes emitted so far
\* are a prefix of content[start..end] when every non-empty fetch result is
\* the full aligned chunk; the bytes written are a prefix of those emitted.
C19_EmittedPrefix ==
  (streamed /\ NoShort) =>
    /\ IsPrefix(emitted, Window(httpRange.Start, httpRange.End))
    /\ IsPrefix(body, emitted)

C19_Witness ==
  /\ streamed
  /\ NoShort
  /\ pc = "done"
  /\ copyErr = "fetch"
  /\ Len(fetches) >= 2
  /\ emitted # <<>>
  /\ Len(emitted) < httpRange.Length

\* C16: two requests served concurrently each emit exactly their own window
\* under every interleaving of their pulls, fetches and writes, and a step of
\* one request leaves the reader of the other as it was.
C16_Isolation ==
  /\ [](\A i \in Requests :
          creq[i].pc = "done" => creq[i].body = Window(creq[i].win[1], creq[i].win[2]))
  /\ [][\A j \in Requests : creq'[j] = creq[j] => creaders'[j] = creaders[j]]_vars

C16_Witness ==
  /\ creq[1].pc = "fetch"
  /\ creq[2].pc = "write"
  /\ creq[1].body # <<>>
  /\ creq[2].body # <<>>
  /\ creq[1].win # creq[2].win
  /\ creaders[1].currentPart # creaders[2].currentPart

\* C17: once a fetch of a stream has returned a zero-length result, the
\* stream issues no further fetch, whatever Read calls follow.
C17_Claim ==
  rdOpen => \A i \in FetchesOfKind("empty") : i = Len(fetches)

\* C20: every stream drained by the handler terminates: whatever the backend
\* returns (full chunks, an empty chunk, an error) and whatever the buffer
\* sizes, io.Copy reaches EOF or an error after finitely many pulls, and the
\* stream issues at most partCount fetches.
C20_Terminates ==
  /\ [](streamed => Len(fetches) <= reader.partCount)
  /\ []((streamed /\ NoShort) => pc \in {"read", "write", "done"})
  /\ [](pc = "done" /\ streamed => copyErr \in {"nil", "fetch", "ctx", "write"})
  /\ (streamed ~> (pc = "done" \/ ~NoShort))

C20_Witness ==
  /\ streamed
  /\ NoShort
  /\ pc = "done"
  /\ copyErr = "nil"
  /\ Len(fetches) = reader.partCount
  /\ reader.partCount = 3

\* C21: the status line (200 or 206) and the headers of a streamed response
\* are committed before the first chunk fetch is issued, and no step of the
\* stream, whatever its fetches return (an error on the first chunk
\* included), changes them: the status is never 500 once streaming started.
C21_HeadersBeforeFetch ==
  /\ [](streamed => w.wroteHeader /\ w.status \in {200, 206} /\ w.sent = w.header)
  /\ [](fetches # <<>> => streamed /\ w.wroteHeader /\ w.status # 500)
  /\ [][streamed => w' = w]_vars

C21_Witness ==
  /\ streamed
  /\ w.status = 206
  /\ Len(fetches) = 1
  /\ fetches[1].kind = "error"
  /\ copyErr = "fetch"
  /\ pc = "done"
  /\ body = <<>>

\* the Content-Length the response declared, as a client parses it
DeclaredLength == ParseInt(w.sent["Content-Length"])

\* C22: in every state of a stream, whatever lengths between 0 and ChunkSize
\* the fetch results have, the reader's bytesRead is at most its
\* contentLength, and the body bytes written are at most the Content-Length
\* the response declared.
C22_WithinLength ==
  streamed =>
    /\ reader.bytesRead <= reader.contentLength
    /\ Len(emitted) = reader.bytesRead
    /\ DeclaredLength.ok
    /\ reader.contentLength = DeclaredLength.val
    /\ Len(body) <= DeclaredLength.val

C22_Witness ==
  /\ streamed
  /\ FetchesOfKind("short") # {}
  /\ FetchesOfKind("full") # {}
  /\ pc = "done"
  /\ copyErr = "nil"
  /\ body # <<>>
  /\ Len(body) < DeclaredLength.val
  /\ reader.currentPart > reader.partCount

\* C23: for every fetch result of length between 1 and ChunkSize, a non-empty
\* chunk shorter than requested included, the slice bounds of the trim lie
\* inside the fetched chunk: no pull faults on an out-of-range slice, no byte
\* from beyond the end of the fetched chunk is emitted, and the leading cut
\* of a single-part plan is at most its trailing cut.
C23_Claim ==
  streamed =>
    /\ pc # "panic"
    /\ copyErr # "panic"
    /\ \A i \in 1..Len(emitted) : emitted[i] # Garbage
    /\ reader.partCount = 1 => reader.firstPartCut <= reader.lastPartCut

\* the part of the current chunk that Read has not handed out yet
Unread == SubSeq(reader.buffer, reader.bufferPos + 1, Len(reader.buffer))

\* C24: whatever buffer sizes >= 1 the consumer passes, the bytes returned by
\* the successive Read calls, followed by the unread rest of the current
\* chunk, are the concatenation in order of the trimmed chunks the part
\* closure returned, no byte duplicated or dropped; a completed stream has
\* emitted exactly those chunks; and the closure is called (a fetch issued,
\* a part consumed) only when the previous chunk is handed out completely.
C24_ReadsAreChunks ==
  /\ [](streamed => emitted \o Unread = handed)
  /\ [](streamed /\ pc = "done" /\ copyErr = "nil" => emitted = handed)
  /\ [][(streamed /\ (handed' # handed \/ fetches' # fetches
                        \/ reader'.currentPart # reader.currentPart))
          => reader.bufferPos >= Len(reader.buffer)]_vars

C24_Witness ==
  /\ streamed
  /\ Len(fetches) >= 2
  /\ reader.bufferPos > 0
  /\ reader.bufferPos < Len(reader.buffer)
  /\ Len(handed) > Len(emitted)
  /\ Len(emitted) > ChunkSize

\* C25: for a file whose stored size is 0, a request without a Range header
\* is answered 200 with Content-Length 0, its reader plans zero parts, issues
\* no chunk fetch and emits no byte; every request with a Range header on
\* that file is answered 416 and streams nothing.
C25_EmptyFile ==
  (Parsed /\ fileSize = 0) =>
    /\ rangeHeader = <<>> =>
         /\ streamed
         /\ w.status = 200
         /\ w.sent["Content-Length"] = <<"0">>
         /\ ~HasHeader(w.sent, "Content-Range")
         /\ reader.contentLength = 0
         /\ reader.partCount = 0
         /\ fetches = <<>>
         /\ emitted = <<>>
         /\ body = <<>>
         /\ pc = "done" => copyErr = "nil"
    /\ rangeHeader # <<>> =>
         /\ ~streamed
         /\ w.status = 416
         /\ pc = "done"
         /\ fetches = <<>>
         /\ body = <<>>

C25_Witness ==
  /\ Parsed
  /\ fileSize = 0
  /\ rangeHeader = <<>>
  /\ w.status = 200
  /\ pc = "done"
  /\ copyErr = "nil"
  /\ reader.lastPartCut = 0

====
